---- MODULE Spec2Model ----
(***************************************************************************)
(* ScimSupport (workspace_access/scim.py): crawling the role and           *)
(* entitlement lists of workspace groups and applying them to the migrated *)
(* target groups through a SCIM patch followed by an in-flight check.      *)
(*                                                                         *)
(* Time is counted in ticks: one tick is one back-off sleep of the retry   *)
(* wrapper, and a remote call returns within the tick it was issued in.    *)
(***************************************************************************)
EXTENDS Integers, Sequences, FiniteSets, TLC

VARIABLES store, initial, now, task, requests_in_window, window_start,
          crawl, listing, call

vars == <<store, initial, now, task, requests_in_window, window_start,
          crawl, listing, call>>

applyVars == <<task, requests_in_window, window_start>>
crawlVars == <<crawl, listing>>

(***************************************************************************)
(* Values                                                                  *)
(***************************************************************************)
None == "None"

\* iam.ComplexValue, reduced to two of its optional fields
Admin == [value |-> "admin", display |-> None]
Dev == [value |-> "dev", display |-> "Developer"]

ComplexValueKeys == {"display", "value"}

\* ComplexValue.as_dict: only the fields that are set
AsDict(e) == [k \in {f \in ComplexValueKeys : e[f] # None} |-> e[k]]

\* ComplexValue.from_dict: fields that are not in the dict are None
FromDict(d) == [k \in ComplexValueKeys |-> IF k \in DOMAIN d THEN d[k] ELSE None]

\* [e.as_dict() for e in list]
AsDicts(list) == [i \in 1..Len(list) |-> AsDict(list[i])]

\* [iam.ComplexValue.from_dict(e) for e in dicts]
FromDicts(dicts) == [i \in 1..Len(dicts) |-> FromDict(dicts[i])]

\* elem in list
Contains(list, elem) == \E j \in 1..Len(list) : list[j] = elem

\* Optional[Group]
NoGroup == [present |-> FALSE]
SomeGroup(g) == [present |-> TRUE, group |-> g]

\* class hierarchy of the exceptions that occur (databricks.sdk.errors)
DatabricksErrors == {"NotFound", "PermissionDenied", "InternalError", "BadRequest"}

IsInstance(err, cls) ==
    \/ err = cls
    \/ cls = "DatabricksError" /\ err \in DatabricksErrors

\* retried(on=[...]): the error is retried iff it is an instance of a listed class
Retryable(on, err) == \E cls \in on : IsInstance(err, cls)

(***************************************************************************)
(* The remote directory (SCIM groups API)                                  *)
(***************************************************************************)
SourceIds == {"S1", "S2", "S3"}
TargetIds == {"T1", "T2"}
SystemIds == {"A0"}
GroupIds == SourceIds \cup TargetIds \cup SystemIds

DisplayName(id) ==
    CASE id = "A0" -> "admins"
      [] id = "S1" -> "eng"
      [] id = "S2" -> "ops"
      [] id = "S3" -> "qa"
      [] id = "T1" -> "ucx-eng"
      [] OTHER -> "ucx-ops"

MkGroup(id, roles, entitlements) ==
    [id |-> id, display_name |-> DisplayName(id), roles |-> roles,
     entitlements |-> entitlements]

\* the service's "add" patch: the values not yet in the list are appended
RECURSIVE AddValues(_, _)
AddValues(list, dicts) ==
    IF dicts = <<>> THEN list
    ELSE LET e == FromDict(Head(dicts))
         IN AddValues(IF Contains(list, e) THEN list ELSE Append(list, e), Tail(dicts))

\* groups.patch(id, operations=[Patch(op=ADD, path, value)]) on the service
RemotePatch(s, id, path, dicts) ==
    [s EXCEPT ![id] = IF path = "roles"
                      THEN [@ EXCEPT !.roles = AddValues(@, dicts)]
                      ELSE [@ EXCEPT !.entitlements = AddValues(@, dicts)]]

\* the service applying one operation of a patch: "add" unions the values into
\* the list of the path, "replace" puts them in its place
RemoteApply(s, id, operation) ==
    IF operation.op = "add" THEN RemotePatch(s, id, operation.path, operation.value)
    ELSE [s EXCEPT ![id] = IF operation.path = "roles"
                           THEN [@ EXCEPT !.roles = FromDicts(operation.value)]
                           ELSE [@ EXCEPT !.entitlements = FromDicts(operation.value)]]

\* what groups.get(id) and groups.patch(id) can answer
GetResponses == {"ok", "stale", "NotFound", "PermissionDenied", "InternalError",
                 "BadRequest", "ConnectionError"}
PatchResponses == {"ok", "NotFound", "PermissionDenied", "InternalError",
                   "BadRequest", "ConnectionError"}

\* the group a successful read shows: the current one, or (the service being
\* eventually consistent) the one from before the patches
RemoteView(resp, id) == IF resp = "stale" THEN initial[id] ELSE store[id]

(***************************************************************************)
(* MigrationState and the Permissions items                                *)
(***************************************************************************)
\* MigrationState.groups: (id_in_workspace, target id) pairs
MigrationGroups == {<<"S1", "T1">>, <<"S2", "T2">>}

\* MigrationState.get_target_id
GetTargetId(object_id) == (CHOOSE g \in MigrationGroups : g[1] = object_id)[2]

\* a relevance test that looks at the wrong side of the mapping
MutIsItemRelevant(item) == \E g \in MigrationGroups : g[2] = item.object_id

\* ScimSupport._is_item_relevant
IsItemRelevant(item) == \E g \in MigrationGroups : g[1] = item.object_id

\* a crawler task that serialises the list of the other kind
MutCrawlerTask(group, property_name) ==
    [object_id |-> group.id,
     object_type |-> property_name,
     raw |-> AsDicts(IF property_name = "roles" THEN group.entitlements
                            ELSE group.roles)]

\* ScimSupport._crawler_task: the Permissions of one list of a group; raw is
\* the JSON array, held as the sequence of its objects
CrawlerTask(group, property_name) ==
    [object_id |-> group.id,
     object_type |-> property_name,
     raw |-> AsDicts(IF property_name = "roles" THEN group.roles
                            ELSE group.entitlements)]

NoItem == [object_id |-> None, object_type |-> None, raw |-> <<>>]

\* the items handed to get_apply_task
Items ==
    { CrawlerTask(MkGroup("S1", <<Admin>>, <<Admin, Dev>>), "roles"),
      CrawlerTask(MkGroup("S1", <<Admin>>, <<Admin, Dev>>), "entitlements"),
      CrawlerTask(MkGroup("S2", <<Dev>>, <<>>), "roles"),
      CrawlerTask(MkGroup("S3", <<Admin>>, <<>>), "roles") }

(***************************************************************************)
(* ScimSupport: the apply task                                             *)
(***************************************************************************)
\* verify_timeout, timedelta(minutes=1), in ticks: the retry wrapper sleeps
\* this many times before its deadline has passed
VerifyTimeoutTicks == 2

\* rate_limited(max_requests=10, burst_period_seconds=60) on _applier_task
MaxRequests == 10
BurstPeriodTicks == 2

\* the apply tasks that run, concurrently or one after the other
Tasks == {"t1", "t2"}

\* a patch that replaces the list of the path
MutOperationsReplace(value, property_name) ==
    [op |-> "replace", path |-> property_name, value |-> AsDicts(value)]

\* operations = [iam.Patch(op=iam.PatchOp.ADD, path=property_name, value=[...])]
Operations(value, property_name) ==
    [op |-> "add", path |-> property_name, value |-> AsDicts(value)]

NoPatch == [id |-> None, operation |-> [op |-> None, path |-> None, value |-> <<>>]]

\* retried(on=[DatabricksError]) around _safe_patch_group
PatchRetryOn == {"DatabricksError"}

\* a check wrapper that does not retry the ValueError of a mismatch
MutCheckRetryOn == {"DatabricksError"}

\* retried(on=[ValueError, DatabricksError]) around _inflight_check
CheckRetryOn == {"ValueError", "DatabricksError"}

\* ScimSupport._safe_patch_group: what the call gives for a response of the service
SafePatchGroup(resp) ==
    IF resp = "ok" THEN [raises |-> None, returns |-> "ok"]
    ELSE IF resp \in {"PermissionDenied", "NotFound"} THEN [raises |-> None, returns |-> None]
    ELSE [raises |-> resp, returns |-> None]

\* a wrapper that takes every error of the service for an absent group
MutSafeGetGroup(resp, id) ==
    IF resp \in {"ok", "stale"} THEN [raises |-> None, returns |-> SomeGroup(RemoteView(resp, id))]
    ELSE IF IsInstance(resp, "DatabricksError") THEN [raises |-> None, returns |-> NoGroup]
    ELSE [raises |-> resp, returns |-> NoGroup]

\* ScimSupport._safe_get_group
SafeGetGroup(resp, id) ==
    IF resp \in {"ok", "stale"} THEN [raises |-> None, returns |-> SomeGroup(RemoteView(resp, id))]
    ELSE IF resp \in {"PermissionDenied", "NotFound"} THEN [raises |-> None, returns |-> NoGroup]
    ELSE [raises |-> resp, returns |-> NoGroup]

\* `group.roles and all(elem in group.roles for elem in value)`
AllGranted(list, value) ==
    /\ Len(list) > 0
    /\ \A i \in 1..Len(value) : Contains(list, value[i])

\* an in-flight check content with any of the grants (any for all)
MutInflightCheckAny(got, value, property_name) ==
    LET SomeGranted(list) == \E i \in 1..Len(value) : Contains(list, value[i])
    IN IF got.present
       THEN IF property_name = "roles" /\ SomeGranted(got.group.roles) THEN "True"
            ELSE IF property_name = "entitlements" /\ SomeGranted(got.group.entitlements)
                 THEN "True"
                 ELSE "ValueError"
       ELSE "False"

\* an in-flight check that wants the list to be exactly the grants applied
MutInflightCheckExact(got, value, property_name) ==
    IF got.present
    THEN IF property_name = "roles" /\ got.group.roles = value THEN "True"
         ELSE IF property_name = "entitlements" /\ got.group.entitlements = value
              THEN "True"
              ELSE "ValueError"
    ELSE "False"

\* ScimSupport._inflight_check, after the read: "True", "False" or the error raised
InflightCheck(got, value, property_name) ==
    IF got.present
    THEN IF property_name = "roles" /\ AllGranted(got.group.roles, value) THEN "True"
         ELSE IF property_name = "entitlements" /\ AllGranted(got.group.entitlements, value)
              THEN "True"
              ELSE "ValueError"
    ELSE "False"

\* a patch whose error is passed over: the check follows
MutPatchRetryResumes == "check"

\* where the retry of a failed patch resumes
PatchRetryResumes == "patch"

\* a retry that wraps the patch together with the check
MutCheckRetryResumes == "patch"

\* where the retry of a failed in-flight check resumes
CheckRetryResumes == "check"

IdleTask ==
    [pc |-> "none", item |-> NoItem, group_id |-> None, value |-> <<>>,
     property_name |-> None, deadline |-> 0, wake |-> 0, outcome |-> None,
     last_read |-> None, patch_calls |-> 0, get_calls |-> 0,
     patched_since_read |-> FALSE, faults |-> FALSE, had_all |-> FALSE,
     mismatches |-> 0, seen |-> NoGroup, sent |-> NoPatch, last_patch |-> None,
     start |-> 0]

\* ScimSupport.get_apply_task
GetApplyTask(t, it) ==
    /\ task[t].pc = "none"
    /\ task' = [task EXCEPT ![t] =
                  IF ~IsItemRelevant(it)
                  THEN [@ EXCEPT !.pc = "declined", !.item = it]
                  ELSE [@ EXCEPT !.pc = "ready", !.item = it,
                                 !.value = FromDicts(it.raw),
                                 !.group_id = GetTargetId(it.object_id),
                                 !.property_name = it.object_type]]
    /\ UNCHANGED <<store, initial, now, requests_in_window, window_start, crawlVars, call>>

\* the rate limiter's admission: a new window, or one more request in this one
WindowOver == now - window_start >= BurstPeriodTicks
CanAcquire == WindowOver \/ requests_in_window < MaxRequests

\* _applier_task is entered: the rate limiter admits the call, and the retry
\* wrapper of the patch takes its deadline
RunTask(t) ==
    /\ task[t].pc = "ready"
    /\ CanAcquire
    /\ requests_in_window' = IF WindowOver THEN 1 ELSE requests_in_window + 1
    /\ window_start' = IF WindowOver THEN now ELSE window_start
    /\ task' = [task EXCEPT ![t].pc = "patch",
                            ![t].start = now,
                            ![t].deadline = now + VerifyTimeoutTicks,
                            ![t].had_all =
                                AllGranted(IF task[t].property_name = "roles"
                                           THEN store[task[t].group_id].roles
                                           ELSE store[task[t].group_id].entitlements,
                                           task[t].value)]
    /\ UNCHANGED <<store, initial, now, crawlVars, call>>

\* one call of _safe_patch_group under retried(on=[DatabricksError])
PatchAttempt(t) ==
    /\ task[t].pc = "patch"
    /\ \E resp \in PatchResponses :
         LET r == SafePatchGroup(resp)
             operation == Operations(task[t].value, task[t].property_name)
             called == [task[t] EXCEPT !.patch_calls = @ + 1,
                                       !.patched_since_read = TRUE,
                                       !.faults = @ \/ resp # "ok",
                                       !.sent = [id |-> task[t].group_id,
                                                 operation |-> operation],
                                       !.last_patch =
                                           IF r.raises # None THEN "error"
                                           ELSE IF r.returns = None THEN "absent"
                                           ELSE "ok"]
         IN /\ store' = IF resp = "ok"
                        THEN RemoteApply(store, task[t].group_id, operation)
                        ELSE store
            /\ task' = [task EXCEPT ![t] =
                          IF r.raises = None
                          THEN [called EXCEPT !.pc = "check",
                                              !.deadline = now + VerifyTimeoutTicks]
                          ELSE IF Retryable(PatchRetryOn, r.raises)
                          THEN [called EXCEPT !.pc = "patch_sleep", !.wake = now + 1]
                          ELSE [called EXCEPT !.pc = "raised", !.outcome = r.raises]]
    /\ UNCHANGED <<initial, now, requests_in_window, window_start, crawlVars, call>>

\* one call of _inflight_check under retried(on=[ValueError, DatabricksError])
CheckAttempt(t) ==
    /\ task[t].pc = "check"
    /\ \E resp \in GetResponses :
         LET r == SafeGetGroup(resp, task[t].group_id)
             res == IF r.raises # None THEN r.raises
                    ELSE InflightCheck(r.returns, task[t].value, task[t].property_name)
             called == [task[t] EXCEPT !.get_calls = @ + 1,
                                       !.patched_since_read = FALSE,
                                       !.faults = @ \/ resp # "ok",
                                       !.mismatches = IF res = "ValueError" THEN @ + 1 ELSE @,
                                       !.seen = r.returns,
                                       !.last_read =
                                           CASE res = "True" -> "match"
                                             [] res = "ValueError" -> "mismatch"
                                             [] res = "False" -> "absent"
                                             [] OTHER -> "error"]
         IN task' = [task EXCEPT ![t] =
                       IF res \in {"True", "False"}
                       THEN [called EXCEPT !.pc = "returned", !.outcome = res]
                       ELSE IF Retryable(CheckRetryOn, res)
                       THEN [called EXCEPT !.pc = "check_sleep", !.wake = now + 1]
                       ELSE [called EXCEPT !.pc = "raised", !.outcome = res]]
    /\ UNCHANGED <<store, initial, now, requests_in_window, window_start, crawlVars, call>>

\* a retry wrapper without a deadline
MutWake(t) ==
    /\ task[t].pc \in {"patch_sleep", "check_sleep"}
    /\ now >= task[t].wake
    /\ task' = [task EXCEPT ![t] =
                  IF TRUE
                  THEN [@ EXCEPT !.pc = IF task[t].pc = "patch_sleep"
                                        THEN PatchRetryResumes
                                        ELSE CheckRetryResumes]
                  ELSE [@ EXCEPT !.pc = "raised", !.outcome = "TimeoutError"]]
    /\ UNCHANGED <<store, initial, now, requests_in_window, window_start, crawlVars, call>>

\* the retry wrapper's sleep is over: `while clock.time() < deadline` either
\* makes the next call or ends, and TimeoutError is raised
Wake(t) ==
    /\ task[t].pc \in {"patch_sleep", "check_sleep"}
    /\ now >= task[t].wake
    /\ task' = [task EXCEPT ![t] =
                  IF now < task[t].deadline
                  THEN [@ EXCEPT !.pc = IF task[t].pc = "patch_sleep"
                                        THEN PatchRetryResumes
                                        ELSE CheckRetryResumes]
                  ELSE [@ EXCEPT !.pc = "raised", !.outcome = "TimeoutError"]]
    /\ UNCHANGED <<store, initial, now, requests_in_window, window_start, crawlVars, call>>

\* time passes while a retry wrapper sleeps; a task that is about to call
\* the service calls it within the tick
Sleeping(t) == task[t].pc \in {"patch_sleep", "check_sleep"} /\ task[t].wake > now

TickApply ==
    /\ \E t \in Tasks : Sleeping(t)
    /\ \A t \in Tasks : task[t].pc \notin {"patch", "check"}
    /\ now' = now + 1
    /\ UNCHANGED <<store, initial, task, requests_in_window, window_start, crawlVars, call>>

EmptyGroups == [id \in GroupIds |-> MkGroup(id, <<>>, <<>>)]

(***************************************************************************)
(* The two wrappers called on their own                                    *)
(***************************************************************************)
NoCall == [op |-> None, group_id |-> None, resp |-> None, raises |-> None,
           absent |-> FALSE, answer |-> NoGroup, returns |-> NoGroup]

\* the lists a caller of the wrappers patches with
PatchValues == {<<Admin>>, <<Dev>>}

\* self._safe_get_group(group_id)
SafeGetGroupCall(id, resp) ==
    /\ LET r == SafeGetGroup(resp, id)
       IN call' = [op |-> "get", group_id |-> id, resp |-> resp, raises |-> r.raises,
                   absent |-> r.raises = None /\ ~r.returns.present,
                   answer |-> IF resp \in {"ok", "stale"}
                              THEN SomeGroup(RemoteView(resp, id)) ELSE NoGroup,
                   returns |-> r.returns]
    /\ UNCHANGED <<store, initial, now, applyVars, crawlVars>>

\* self._safe_patch_group(group_id, operations)
SafePatchGroupCall(id, operation, resp) ==
    /\ LET r == SafePatchGroup(resp)
       IN call' = [op |-> "patch", group_id |-> id, resp |-> resp, raises |-> r.raises,
                   absent |-> r.raises = None /\ r.returns = None,
                   answer |-> NoGroup, returns |-> NoGroup]
    /\ store' = IF resp = "ok" THEN RemoteApply(store, id, operation) ELSE store
    /\ UNCHANGED <<initial, now, applyVars, crawlVars>>

NextAdapter ==
    \/ \E id \in TargetIds : \E resp \in GetResponses : SafeGetGroupCall(id, resp)
    \/ \E id \in TargetIds : \E value \in PatchValues :
         \E property_name \in {"roles", "entitlements"} : \E resp \in PatchResponses :
           SafePatchGroupCall(id, Operations(value, property_name), resp)

(***************************************************************************)
(* ScimSupport: listing the workspace groups and the crawler tasks         *)
(***************************************************************************)
\* _SYSTEM_GROUPS, the reserved display names
SYSTEM_GROUPS == {"admins", "users"}

\* a scope test that looks at the id instead of the display name
MutIsGroupOutOfScope(group) == group.id \in SYSTEM_GROUPS

\* ScimSupport._is_group_out_of_scope
IsGroupOutOfScope(group) == group.display_name \in SYSTEM_GROUPS

\* the order in which groups.list yields the groups of the workspace
ListedIds == <<"A0", "S1", "S2", "S3", "T1", "T2">>

\* attribute lists, held as the set of the names between the commas
CrawlAttributes == {"id", "displayName", "roles", "entitlements"}
CheapAttributes == {"id", "displayName", "meta"}

\* groups.list(attributes=...) shows of a group only the attributes asked for
Project(g, attributes) ==
    MkGroup(g.id,
            IF "roles" \in attributes THEN g.roles ELSE <<>>,
            IF "entitlements" \in attributes THEN g.entitlements ELSE <<>>)

\* `"members" in a or "roles" in a or "entitlements" in a`
NeedsFullFetch(attributes) == attributes \cap {"members", "roles", "entitlements"} # {}

\* the attribute list _list_workspace_groups hands to groups.list
ListAttributes(scim_attributes) ==
    IF NeedsFullFetch(scim_attributes) THEN CheapAttributes ELSE scim_attributes

\* a retry of groups.get on every error of the service
MutGetRetryOn == {"DatabricksError"}

\* retried(on=[InternalError]) around _get_group_with_retries, and its timeout
\* (the default of retried, 20 minutes) in ticks: the number of sleeps before
\* the deadline has passed
GetRetryOn == {"InternalError"}
DefaultTimeoutTicks == 2

\* retried(on=[DatabricksError]) around _get_groups
GetGroupsRetryOn == {"DatabricksError"}

\* the parameters of _list_workspace_groups after self, and the keyword
\* arguments _get_groups calls it with
ListWorkspaceGroupsParams == {"scim_attributes"}
GetGroupsKwargs == [attributes |-> CrawlAttributes]

\* a call with keyword arguments binds iff they name the parameters, all of
\* which are required; otherwise it raises TypeError
Binds(params, kwargs) == DOMAIN kwargs = params

\* the loop of get_crawler_tasks: the (group, list) pairs a task is yielded for
RECURSIVE YieldedTasks(_)
YieldedTasks(groups) ==
    IF groups = <<>> THEN <<>>
    ELSE LET g == Head(groups)
         IN (IF Len(g.roles) > 0 THEN <<[group |-> g, property_name |-> "roles"]>>
             ELSE <<>>)
            \o (IF Len(g.entitlements) > 0
                THEN <<[group |-> g, property_name |-> "entitlements"]>> ELSE <<>>)
            \o YieldedTasks(Tail(groups))

MaxListCalls == 2

IdleCrawl == [pc |-> "idle", outcome |-> None, groups |-> <<>>, tasks |-> <<>>,
              deadline |-> 0, snapshot |-> NoItem]
IdleListing ==
    [pc |-> "idle", caller |-> None, scim_attributes |-> {}, listed |-> <<>>,
     idx |-> 0, results |-> <<>>, deadline |-> 0, wake |-> 0, outcome |-> None,
     calls |-> 0, failed_calls |-> 0, got_ids |-> {}, skipped_ids |-> {},
     remote_calls |-> 0, last_resp |-> None, lost |-> 0]

\* a listing that appends to the results of the call before
MutEnterListing(l, caller, scim_attributes, resp) ==
    IF resp = "ok"
    THEN [l EXCEPT !.pc = "iter", !.caller = caller,
                   !.scim_attributes = scim_attributes,
                   !.listed = [i \in 1..Len(ListedIds) |->
                                  Project(store[ListedIds[i]],
                                          ListAttributes(scim_attributes))],
                   !.idx = 1, !.outcome = None,
                   !.skipped_ids = {}, !.calls = @ + 1,
                   !.remote_calls = 1, !.last_resp = None]
    ELSE [l EXCEPT !.pc = "raised", !.caller = caller,
                   !.scim_attributes = scim_attributes, !.listed = <<>>,
                   !.idx = 0, !.outcome = resp,
                   !.skipped_ids = {}, !.calls = @ + 1, !.failed_calls = @ + 1,
                   !.remote_calls = 1, !.last_resp = None]

\* _list_workspace_groups is entered: groups.list is called
EnterListing(l, caller, scim_attributes, resp) ==
    IF resp = "ok"
    THEN [l EXCEPT !.pc = "iter", !.caller = caller,
                   !.scim_attributes = scim_attributes,
                   !.listed = [i \in 1..Len(ListedIds) |->
                                  Project(store[ListedIds[i]],
                                          ListAttributes(scim_attributes))],
                   !.idx = 1, !.results = <<>>, !.outcome = None,
                   !.skipped_ids = {}, !.calls = @ + 1,
                   !.remote_calls = 1, !.last_resp = None]
    ELSE [l EXCEPT !.pc = "raised", !.caller = caller,
                   !.scim_attributes = scim_attributes, !.listed = <<>>,
                   !.idx = 0, !.results = <<>>, !.outcome = resp,
                   !.skipped_ids = {}, !.calls = @ + 1, !.failed_calls = @ + 1,
                   !.remote_calls = 1, !.last_resp = None]

ListResponses == {"ok", "InternalError", "ConnectionError"}

\* get_crawler_tasks, after _get_groups has returned `groups`
CrawlYields(c, groups) ==
    [c EXCEPT !.pc = "yielded", !.groups = groups, !.tasks = YieldedTasks(groups)]

\* _get_groups, when _list_workspace_groups has raised `err`
CrawlAfterError(c, err) ==
    IF Retryable(GetGroupsRetryOn, err)
    THEN [c EXCEPT !.pc = "sleep"]
    ELSE [c EXCEPT !.pc = "raised", !.outcome = err]

\* the crawl as the listing it called ends in l
CrawlAfterListing(c, l) ==
    IF l.caller # "crawl" THEN c
    ELSE IF l.pc = "done" THEN CrawlYields(c, l.results)
    ELSE IF l.pc = "raised" THEN CrawlAfterError(c, l.outcome)
    ELSE c

\* get_crawler_tasks is iterated: _get_groups calls _list_workspace_groups
\* with the keyword `attributes`; a call that does not bind raises TypeError
\* before the body is entered
GetCrawlerTasks ==
    /\ crawl.pc \in {"idle", "retry"}
    /\ listing.pc \in {"idle", "done", "raised"}
    /\ IF Binds(ListWorkspaceGroupsParams, GetGroupsKwargs)
       THEN \E resp \in ListResponses :
              /\ listing' = EnterListing(listing, "crawl", GetGroupsKwargs.attributes, resp)
              /\ crawl' = CrawlAfterListing(
                             [crawl EXCEPT !.pc = "listing",
                                           !.deadline = IF crawl.pc = "idle"
                                                        THEN now + DefaultTimeoutTicks
                                                        ELSE @],
                             listing')
       ELSE /\ crawl' = CrawlAfterError(crawl, "TypeError")
            /\ listing' = listing
    /\ UNCHANGED <<store, initial, now, applyVars, call>>

\* _list_workspace_groups is called with its attribute list as the positional
\* argument (a call that binds, unlike the one of _get_groups)
ListWorkspaceGroups(scim_attributes) ==
    /\ crawl.pc # "listing"
    /\ listing.pc \in {"idle", "done", "raised"}
    /\ listing.calls < MaxListCalls
    /\ \E resp \in ListResponses :
         listing' = EnterListing(listing, "direct", scim_attributes, resp)
    /\ UNCHANGED <<store, initial, now, applyVars, crawl, call>>

\* one turn of the loop over the listed groups
ListNext ==
    /\ listing.pc = "iter"
    /\ LET g == listing.listed[listing.idx]
       IN listing' =
            IF listing.idx > Len(listing.listed)
            THEN [listing EXCEPT !.pc = "done"]
            ELSE IF IsGroupOutOfScope(g)
            THEN [listing EXCEPT !.idx = @ + 1, !.skipped_ids = @ \cup {g.id}]
            ELSE IF NeedsFullFetch(listing.scim_attributes)
            THEN [listing EXCEPT !.pc = "get", !.deadline = now + DefaultTimeoutTicks]
            ELSE [listing EXCEPT !.idx = @ + 1, !.results = Append(@, g)]
    /\ crawl' = CrawlAfterListing(crawl, listing')
    /\ UNCHANGED <<store, initial, now, applyVars, call>>

\* one call of groups.get under retried(on=[InternalError])
GetAttempt ==
    /\ listing.pc = "get"
    /\ LET id == listing.listed[listing.idx].id
       IN \E resp \in GetResponses \ {"stale"} :
            LET called == [listing EXCEPT !.got_ids = @ \cup {id},
                                          !.remote_calls = @ + 1,
                                          !.last_resp = resp]
            IN listing' =
                 IF resp = "ok"
                 THEN [called EXCEPT !.pc = "iter", !.idx = @ + 1,
                                     !.results = Append(@, store[id])]
                 ELSE IF Retryable(GetRetryOn, resp)
                 THEN [called EXCEPT !.pc = "get_sleep", !.wake = now + 1]
                 ELSE [called EXCEPT !.pc = "raised", !.outcome = resp,
                                     !.failed_calls = @ + 1,
                                     !.lost = Len(listing.results)]
    /\ crawl' = CrawlAfterListing(crawl, listing')
    /\ UNCHANGED <<store, initial, now, applyVars, call>>

\* the sleep of the retry wrapper of _get_group_with_retries is over
GetWake ==
    /\ listing.pc = "get_sleep"
    /\ now >= listing.wake
    /\ listing' = IF now < listing.deadline
                  THEN [listing EXCEPT !.pc = "get"]
                  ELSE [listing EXCEPT !.pc = "raised", !.outcome = "TimeoutError",
                                       !.failed_calls = @ + 1,
                                       !.lost = Len(listing.results)]
    /\ crawl' = CrawlAfterListing(crawl, listing')
    /\ UNCHANGED <<store, initial, now, applyVars, call>>

\* the tasks there are to call: those get_crawler_tasks has yielded, and
\* partial(self._crawler_task, g, kind) built the same way from the groups a
\* listing has returned
CallableTasks ==
    LET built == crawl.tasks \o (IF listing.pc = "done"
                                 THEN YieldedTasks(listing.results) ELSE <<>>)
    IN {built[i] : i \in 1..Len(built)}

\* a crawler task is called: _crawler_task(group, property_name)
CrawlerTaskCall ==
    /\ \E tk \in CallableTasks :
         crawl' = [crawl EXCEPT !.snapshot = CrawlerTask(tk.group, tk.property_name)]
    /\ UNCHANGED <<store, initial, now, applyVars, listing, call>>

TickCrawl ==
    /\ listing.pc = "get_sleep" /\ listing.wake > now
    /\ now' = now + 1
    /\ UNCHANGED <<store, initial, applyVars, crawlVars, call>>

\* the lists the groups of the workspace hold when the crawl starts
CrawledLists == {<<>>, <<Admin>>, <<Dev, Admin>>}

InitCrawl ==
    /\ \E r1, r0 \in CrawledLists : \E e1 \in {<<>>, <<Dev>>} :
         store = [EmptyGroups EXCEPT !["S1"] = MkGroup("S1", r1, e1),
                                     !["A0"] = MkGroup("A0", r0, <<>>),
                                     !["S2"] = MkGroup("S2", <<>>, <<Admin>>)]
    /\ initial = store
    /\ now = 0
    /\ task = [t \in Tasks |-> IdleTask]
    /\ requests_in_window = 0
    /\ window_start = 0
    /\ crawl = IdleCrawl
    /\ listing = IdleListing
    /\ call = NoCall

NextCrawl ==
    \/ GetCrawlerTasks
    \/ \E a \in {CrawlAttributes, {"id", "displayName"}} : ListWorkspaceGroups(a)
    \/ ListNext
    \/ GetAttempt
    \/ GetWake
    \/ CrawlerTaskCall
    \/ TickCrawl

SpecCrawl == InitCrawl /\ [][NextCrawl]_vars

\* what the target T1 holds before the migration
InitialTargets ==
    { MkGroup("T1", <<>>, <<Admin>>),
      MkGroup("T1", <<Dev, Admin>>, <<>>) }


InitApply ==
    /\ \E g \in InitialTargets :
         store = [EmptyGroups EXCEPT !["T1"] = g,
                                     !["S1"] = MkGroup("S1", <<Admin>>, <<Admin, Dev>>),
                                     !["S2"] = MkGroup("S2", <<Dev>>, <<>>),
                                     !["S3"] = MkGroup("S3", <<Admin>>, <<>>)]
    /\ initial = store
    /\ now = 0
    /\ task = [t \in Tasks |-> IdleTask]
    /\ requests_in_window = 0
    /\ window_start = 0
    /\ crawl = IdleCrawl
    /\ listing = IdleListing
    /\ call = NoCall

NextApply ==
    \/ \E t \in Tasks : \E it \in Items : GetApplyTask(t, it)
    \/ \E t \in Tasks : RunTask(t)
    \/ \E t \in Tasks : PatchAttempt(t)
    \/ \E t \in Tasks : CheckAttempt(t)
    \/ \E t \in Tasks : Wake(t)
    \/ TickApply

SpecApply == InitApply /\ [][NextApply]_vars

SpecAdapter == InitApply /\ [][NextAdapter]_vars

\* the step of the thread that runs a task
TaskStep(t) == RunTask(t) \/ PatchAttempt(t) \/ CheckAttempt(t) \/ Wake(t)

\* the clock advances, each remote call returns and each thread goes on
SpecApplyFair ==
    /\ SpecApply
    /\ WF_vars(TickApply)
    /\ \A t \in Tasks : WF_vars(TaskStep(t))

(***************************************************************************)
(* Properties of the apply task                                            *)
(***************************************************************************)
Returned(t) == task[t].pc = "returned"
Raised(t) == task[t].pc = "raised"
Ended(t) == Returned(t) \/ Raised(t)

\* the source ids of the mapping, and the target of a source id
MappedSources == {g[1] : g \in MigrationGroups}
TargetOf(object_id) == CHOOSE id \in GroupIds : <<object_id, id>> \in MigrationGroups

\* the grants of an item, and the list of the item's kind in a group
GrantsOf(it) == {FromDict(it.raw[i]) : i \in 1..Len(it.raw)}
OwnList(it, g) == IF it.object_type = "roles" THEN g.roles ELSE g.entitlements
OtherList(it, g) == IF it.object_type = "roles" THEN g.entitlements ELSE g.roles
Elements(list) == {list[i] : i \in 1..Len(list)}

\* C1: a run of an apply task ends either by returning True after a read that
\* showed all the grants, or by raising; it never returns another value.
C1_ReturnsTrueOrRaises ==
    \A t \in Tasks :
        Returned(t) => task[t].outcome = "True" /\ task[t].last_read = "match"

\* C2: a read that finds the target absent is retried while the timeout has
\* not elapsed, and when it has elapsed the task raises: the task does not end
\* on an absent read in another way.
C2_AbsentIsRetriedThenRaises ==
    \A t \in Tasks :
        task[t].last_read = "absent" =>
            /\ ~Returned(t)
            /\ Raised(t) => now >= task[t].deadline

C4_TrueOnlyIfGranted ==
    \A t \in Tasks :
        task[t].outcome = "True" =>
            /\ task[t].seen.present
            /\ OwnList(task[t].item, task[t].seen.group) # <<>>
            /\ GrantsOf(task[t].item) \subseteq
                   Elements(OwnList(task[t].item, task[t].seen.group))

C4_Witness ==
    \E t, u \in Tasks :
        /\ task[t].outcome = "True" /\ Len(task[t].item.raw) = 2
        /\ task[u].last_read = "mismatch"
        /\ GrantsOf(task[u].item) \subseteq
               Elements(OtherList(task[u].item, task[u].seen.group))

\* C5: a task all of whose reads showed the target with a grant missing does
\* not return, and raises only when the timeout of the check has elapsed,
\* with TimeoutError; until then it goes on.
C5_MismatchEndsInTimeout ==
    \A t \in Tasks :
        (task[t].get_calls >= 1 /\ task[t].mismatches = task[t].get_calls) =>
            /\ ~Returned(t)
            /\ Raised(t) => task[t].outcome = "TimeoutError" /\ now >= task[t].deadline
            /\ ~Raised(t) => task[t].pc \in {"check", "check_sleep"}

C5_Witness ==
    \E t \in Tasks :
        /\ Raised(t) /\ task[t].outcome = "TimeoutError"
        /\ task[t].get_calls = 2 /\ task[t].mismatches = 2

\* C6: get_apply_task gives no task for an item whose object id is no source
\* of the mapping and a task bound to the mapped target otherwise, and in
\* both cases calls the service not at all: the calls start with the run.
C6_NoTaskOutOfScope ==
    /\ \A t \in Tasks :
          /\ task[t].pc = "declined" =>
                task[t].item.object_id \notin MappedSources /\ task[t].group_id = None
          /\ task[t].pc \notin {"none", "declined"} =>
                /\ task[t].item.object_id \in MappedSources
                /\ task[t].group_id = TargetOf(task[t].item.object_id)
          /\ task[t].pc \in {"none", "declined", "ready"} =>
                task[t].patch_calls = 0 /\ task[t].get_calls = 0
    /\ (\A t \in Tasks : task[t].pc \in {"none", "declined", "ready"}) =>
          store = initial /\ requests_in_window = 0

C6_Witness ==
    \E t, u \in Tasks :
        /\ task[t].pc = "declined" /\ task[t].item.object_id = "S3"
        /\ task[u].pc = "ready" /\ task[u].group_id = "T1"

\* C7: a task that starts when its target holds all its grants, and whose
\* calls the service all answers, returns True, and its patch leaves the
\* groups of the service as they were.
C7_SecondApplyIdempotent ==
    /\ [](\A t \in Tasks :
            (task[t].had_all /\ ~task[t].faults /\ Ended(t)) => task[t].outcome = "True")
    /\ [][\A t \in Tasks :
            (task[t].had_all /\ task'[t].patch_calls > task[t].patch_calls)
                => store' = store]_vars

C7_Witness ==
    \E t, u \in Tasks :
        /\ t # u /\ task[t].item = task[u].item
        /\ ~task[t].had_all /\ task[t].outcome = "True"
        /\ task[u].had_all /\ ~task[u].faults /\ task[u].outcome = "True"
        /\ task[u].patch_calls = 1

(***************************************************************************)
(* Properties of the crawl                                                 *)
(***************************************************************************)
\* what the service can make a call raise
RemoteErrors == DatabricksErrors \cup {"ConnectionError", "TimeoutError"}

CrawlEnded == crawl.pc \in {"yielded", "raised"}

\* the crawl has yielded the task of this list of this group of the service
Yielded(id, property_name) ==
    \E i \in 1..Len(crawl.tasks) :
        /\ crawl.tasks[i] = [group |-> store[id], property_name |-> property_name]
        /\ LET snapshot == CrawlerTask(crawl.tasks[i].group, crawl.tasks[i].property_name)
               list == IF property_name = "roles" THEN store[id].roles
                       ELSE store[id].entitlements
           IN /\ snapshot.object_id = id
              /\ snapshot.object_type = property_name
              /\ Len(snapshot.raw) = Len(list)
              /\ \A k \in 1..Len(list) : FromDict(snapshot.raw[k]) = list[k]

\* C8: the crawl of a workspace whose group S1 has roles, when no call of the
\* service fails, yields the task of the Role snapshot of S1 with its roles
\* in order (which the apply task then applies to the mapped target).
C8_CrawlYieldsRoleSnapshot ==
    (CrawlEnded /\ crawl.outcome \notin RemoteErrors /\ store["S1"].roles # <<>>)
        => Yielded("S1", "roles")

InScopeIds == {id \in GroupIds : store[id].display_name \notin SYSTEM_GROUPS}

\* C9: the crawl, when no call of the service fails, yields for each group in
\* scope the Role task iff its roles are not empty and the Entitlement task
\* iff its entitlements are not empty, and no task with an empty list.
C9_TaskIffListNonEmpty ==
    (CrawlEnded /\ crawl.outcome \notin RemoteErrors) =>
        /\ \A id \in InScopeIds :
              /\ Yielded(id, "roles") <=> store[id].roles # <<>>
              /\ Yielded(id, "entitlements") <=> store[id].entitlements # <<>>
        /\ \A i \in 1..Len(crawl.tasks) :
              CrawlerTask(crawl.tasks[i].group, crawl.tasks[i].property_name).raw # <<>>

\* C10: for a group whose display name is reserved there is no groups.get
\* call, no entry in the result of the listing and no crawler task, in every
\* listing attempt, also one made after an attempt that failed.
C10_SystemGroupsExcluded ==
    \A id \in GroupIds :
        store[id].display_name \in SYSTEM_GROUPS =>
            /\ id \notin listing.got_ids
            /\ \A i \in 1..Len(listing.results) : listing.results[i].id # id
            /\ \A i \in 1..Len(crawl.tasks) : crawl.tasks[i].group.id # id

C10_Witness ==
    /\ listing.pc = "done" /\ listing.failed_calls >= 1
    /\ NeedsFullFetch(listing.scim_attributes)
    /\ "A0" \in listing.skipped_ids
    /\ store["A0"].roles # <<>>
    /\ Len(listing.results) = Len(ListedIds) - 1

\* C11: a groups.get that answers not-found or access-denied for a group the
\* listing has listed does not abort the listing: the group is skipped and
\* the listing goes on to the groups after it.
C11_AbsentGroupIsSkipped ==
    listing.last_resp \in {"NotFound", "PermissionDenied"} => listing.pc # "raised"

Admissions ==
    Cardinality({t \in Tasks : task[t].pc \notin {"none", "declined", "ready"}})

RECURSIVE PatchCallsOf(_)
PatchCallsOf(ts) ==
    IF ts = {} THEN 0
    ELSE LET t == CHOOSE u \in ts : TRUE
         IN task[t].patch_calls + PatchCallsOf(ts \ {t})

\* C13: every groups.patch call is made under the rate limiter: over all
\* apply tasks, the patch calls made, those of the retry after an error
\* among them, are never more than the admissions of the rate limiter.
C13_PatchCallsWithinAdmissions == PatchCallsOf(Tasks) <= Admissions

Quiescent == \A t \in Tasks : task[t].pc \in {"none", "declined", "returned", "raised"}

\* the grants of the snapshots whose patch of this list of this group the
\* service has accepted
AppliedGrants(id, property_name) ==
    UNION {Elements(task[t].value) :
             t \in {u \in Tasks : /\ task[u].group_id = id
                                  /\ task[u].property_name = property_name
                                  /\ task[u].last_patch = "ok"}}

\* each list of each group holds its initial grants and the grants applied to it
GrantsAreUnion ==
    \A id \in GroupIds :
        /\ Elements(store[id].roles) =
              Elements(initial[id].roles) \cup AppliedGrants(id, "roles")
        /\ Elements(store[id].entitlements) =
              Elements(initial[id].entitlements) \cup AppliedGrants(id, "entitlements")

\* C15: under every interleaving of the apply tasks, a task that returns
\* returns True, and once no task is running each list of each group holds
\* the union of its initial grants and the grants of the snapshots applied
\* to it.
C15_TasksIndependent ==
    /\ \A t \in Tasks : Returned(t) => task[t].outcome = "True"
    /\ Quiescent => GrantsAreUnion

C17_PatchBeforeCheck ==
    /\ [](\A t \in Tasks :
            /\ task[t].get_calls >= 1 => task[t].last_patch \in {"ok", "absent"}
            /\ (Raised(t) /\ task[t].last_patch = "error") => task[t].get_calls = 0)
    /\ [][\A t \in Tasks :
            task'[t].get_calls > task[t].get_calls =>
                /\ task[t].patch_calls >= 1
                /\ task[t].last_patch \in {"ok", "absent"}]_vars

C17_Witness ==
    \E t \in Tasks :
        /\ Raised(t) /\ task[t].outcome = "TimeoutError"
        /\ task[t].last_patch = "error"
        /\ task[t].patch_calls = VerifyTimeoutTicks
        /\ task[t].get_calls = 0

\* the (group id, kind) pairs of a sequence of tasks, one entry per task
TaskKeys(tasks) == [i \in 1..Len(tasks) |-> <<tasks[i].group.id, tasks[i].property_name>>]

NoDuplicates(seq) == \A i, j \in 1..Len(seq) : seq[i] = seq[j] => i = j

\* C18: the tasks of one enumeration hold at most one task per (group id,
\* kind): the result of a listing holds each group once, also the result of
\* a listing made after one that failed with groups already fetched, and so
\* do the tasks built from it and the tasks the crawl has yielded.
C18_OneTaskPerGroupAndKind ==
    /\ NoDuplicates([i \in 1..Len(listing.results) |-> listing.results[i].id])
    /\ NoDuplicates(TaskKeys(YieldedTasks(listing.results)))
    /\ NoDuplicates(TaskKeys(crawl.tasks))

C18_Witness ==
    /\ listing.pc = "done" /\ listing.calls = 2 /\ listing.failed_calls = 1
    /\ listing.lost >= 2
    /\ Len(listing.results) = Len(ListedIds) - 1
    /\ Len(YieldedTasks(listing.results)) >= 3

IsPrefix(list, longer) ==
    /\ Len(list) <= Len(longer)
    /\ \A i \in 1..Len(list) : longer[i] = list[i]

\* C19: an apply task changes only the target the mapping gives for its
\* source group, and only by adding: each patch it sends goes to that target
\* with op add, the path of the snapshot's kind and the snapshot's grants;
\* a step that changes a group is such a patch, keeps what the list held,
\* adds the snapshot's grants and leaves the other list alone.
C19_OnlyTargetOnlyAdds ==
    /\ [](\A t \in Tasks :
            task[t].patch_calls >= 1 =>
                /\ task[t].sent.id = TargetOf(task[t].item.object_id)
                /\ task[t].sent.operation.op = "add"
                /\ task[t].sent.operation.path = task[t].item.object_type
                /\ task[t].sent.operation.value = task[t].item.raw)
    /\ [][\A id \in GroupIds :
            store'[id] # store[id] =>
                \E t \in Tasks :
                    LET it == task[t].item
                    IN /\ task'[t].patch_calls > task[t].patch_calls
                       /\ id = TargetOf(it.object_id)
                       /\ id \notin MappedSources
                       /\ store'[id].id = store[id].id
                       /\ store'[id].display_name = store[id].display_name
                       /\ OtherList(it, store'[id]) = OtherList(it, store[id])
                       /\ IsPrefix(OwnList(it, store[id]), OwnList(it, store'[id]))
                       /\ Elements(OwnList(it, store'[id])) =
                             Elements(OwnList(it, store[id])) \cup GrantsOf(it)]_vars

C19_Witness ==
    \E t \in Tasks :
        /\ task[t].item.object_id = "S1" /\ task[t].item.object_type = "entitlements"
        /\ task[t].outcome = "True"
        /\ store["T1"].entitlements = <<Admin, Dev>>
        /\ initial["T1"].entitlements = <<Admin>>
        /\ store["T1"].roles = initial["T1"].roles
        /\ \A id \in GroupIds \ {"T1"} : store[id] = initial[id]

Started(t) == task[t].pc \in {"patch", "patch_sleep", "check", "check_sleep"}

\* the task makes a remote call in this step
Calls(t) ==
    \/ task'[t].patch_calls > task[t].patch_calls
    \/ task'[t].get_calls > task[t].get_calls

====
